---- MODULE Spec2Model ----
(***************************************************************************)
(* Model of typed_event.Event (src/src/typed_event/event.py): an ordered   *)
(* list of callbacks with subscribe, unsubscribe, dispatch and the         *)
(* event_listener decorator.  dispatch is modelled step by step: one step  *)
(* per iteration of its for-loop over the live list, each step including   *)
(* the whole call of the callback (and whatever that callback does to the  *)
(* event).                                                                 *)
(***************************************************************************)
EXTENDS Integers, Sequences, FiniteSets, TLC

(* ------------------------------ bounds --------------------------------- *)

\* Number of successful subscribe calls (on all events together) explored.
MaxSubs == 3

(* ------------------------------ inputs --------------------------------- *)

\* Event instances.
Events == {"e1", "e2"}

\* Callback values handed to the events.  Functions compare by identity, so
\* a name stands for one function object.
\*   cb1, cb3   record the call and return
\*   boom       raises ValueError("Test exception")
\*   unsub3     records the call, then calls event.unsubscribe(cb3)
\*   sub1       records the call, then calls event.subscribe(cb1)
\*   unsubself  records the call, then calls event.unsubscribe(unsubself)
Callbacks == {"cb1", "cb3", "boom", "unsub3", "sub1", "unsubself"}

\* What each callback does when called: kind of body and the callback it
\* passes to the event method it calls (target).
CallbackBody(cb) ==
    CASE cb = "cb1"       -> [kind |-> "plain", target |-> "cb1"]
      [] cb = "cb3"       -> [kind |-> "plain", target |-> "cb3"]
      [] cb = "boom"      -> [kind |-> "raise", target |-> "boom"]
      [] cb = "unsub3"    -> [kind |-> "unsub", target |-> "cb3"]
      [] cb = "sub1"      -> [kind |-> "sub",   target |-> "cb1"]
      [] cb = "unsubself" -> [kind |-> "unsub", target |-> "unsubself"]

\* Argument bundles (*args, **kwargs) given to dispatch; kwargs is a set of
\* <<name, value>> pairs.
NoArgs == [args |-> <<>>, kwargs |-> {}]
ArgBundles == {NoArgs,
               [args |-> <<"Alice", 30>>, kwargs |-> {<<"active", TRUE>>}]}

\* Exceptions and return values.
NoException == "none"
TestException == "ValueError: Test exception"
NotInList == "ValueError: list.remove(x): x not in list"
None == "None"
CallbackResult == "callback result"

(* ------------------------------ state ---------------------------------- *)

VARIABLES
    callbacks,  \* callbacks[e]: the list self._callbacks of event e
    call,       \* the API call in progress, or the last one completed
    idx,        \* index of the list iterator of the running dispatch
    calls,      \* callback invocations made by the call in `call`, each
                \* with the list and the iterator's position it was made at
    nSub,       \* nSub[e]: successful subscribe calls on e so far
    nUnsub      \* nUnsub[e]: successful unsubscribe calls on e so far

vars == <<callbacks, call, idx, calls, nSub, nUnsub>>

(* --------------------------- list operations --------------------------- *)

\* Variant of list_append that skips a value already in the list.
list_append_dedup(l, x) ==
    IF \E i \in 1..Len(l) : l[i] = x THEN l ELSE Append(l, x)

\* list.append(x)
list_append(l, x) == Append(l, x)

\* Index of the first element of l equal to x (0 when there is none).
FirstIndex(l, x) ==
    IF \E i \in 1..Len(l) : l[i] = x
    THEN CHOOSE i \in 1..Len(l) : l[i] = x /\ \A j \in 1..(i - 1) : l[j] # x
    ELSE 0

\* Variant of list_remove that ignores a value that is not in the list.
list_remove_silent(l, x) ==
    LET i == FirstIndex(l, x) IN
    [exc |-> NoException,
     list |-> IF i = 0 THEN l
              ELSE SubSeq(l, 1, i - 1) \o SubSeq(l, i + 1, Len(l))]

\* Variant of list_remove that removes the last element equal to x.
list_remove_last(l, x) ==
    IF \E i \in 1..Len(l) : l[i] = x
    THEN LET i == CHOOSE k \in 1..Len(l) :
                      l[k] = x /\ \A j \in (k + 1)..Len(l) : l[j] # x
         IN [exc |-> NoException,
             list |-> SubSeq(l, 1, i - 1) \o SubSeq(l, i + 1, Len(l))]
    ELSE [exc |-> NotInList, list |-> l]

\* Variant of list_remove that removes every element equal to x.
list_remove_all(l, x) ==
    IF \E i \in 1..Len(l) : l[i] = x
    THEN [exc |-> NoException, list |-> SelectSeq(l, LAMBDA y : y # x)]
    ELSE [exc |-> NotInList, list |-> l]

\* list.remove(x): removes the first element equal to x, raises ValueError
\* when there is none.
list_remove(l, x) ==
    LET i == FirstIndex(l, x) IN
    IF i = 0
    THEN [exc |-> NotInList, list |-> l]
    ELSE [exc |-> NoException,
          list |-> SubSeq(l, 1, i - 1) \o SubSeq(l, i + 1, Len(l))]

\* Variant of listiter_next that walks the list from its end.
listiter_next_reversed(l, i) ==
    IF i < Len(l)
    THEN [done |-> FALSE, item |-> l[Len(l) - i], index |-> i + 1]
    ELSE [done |-> TRUE, item |-> None, index |-> i]

\* Variant of listiter_next that walks the list as it was when the running
\* dispatch started (for callback in list(self._callbacks)).
listiter_next_snapshot(l, i) ==
    IF i < Len(call.pre)
    THEN [done |-> FALSE, item |-> call.pre[i + 1], index |-> i + 1]
    ELSE [done |-> TRUE, item |-> None, index |-> i]

\* Variant of listiter_next that stops at the length the list had when the
\* running dispatch started (for i in range(len(self._callbacks))).
listiter_next_fixed_length(l, i) ==
    IF i < Len(l) /\ i < Len(call.pre)
    THEN [done |-> FALSE, item |-> l[i + 1], index |-> i + 1]
    ELSE [done |-> TRUE, item |-> None, index |-> i]

\* Variant of listiter_next that starts over at the end of the list.
listiter_next_wrap(l, i) ==
    IF Len(l) > 0
    THEN [done |-> FALSE, item |-> l[(i % Len(l)) + 1], index |-> i + 1]
    ELSE [done |-> TRUE, item |-> None, index |-> i]

\* next() of the iterator of `for callback in self._callbacks`: the element
\* at the iterator's index of the live list, or exhaustion.
listiter_next(l, i) ==
    IF i < Len(l)
    THEN [done |-> FALSE, item |-> l[i + 1], index |-> i + 1]
    ELSE [done |-> TRUE, item |-> None, index |-> i]

\* Variant of PassArgs that forwards the positional arguments only.
PassArgs_positional(bundle) == [args |-> bundle.args, kwargs |-> {}]

\* callback(*args, **kwargs): the bundle the callback receives.
PassArgs(bundle) == [args |-> bundle.args, kwargs |-> bundle.kwargs]

(* ---------------------------- API calls -------------------------------- *)

Idle == call.outcome # "running"

Total(n) == n["e1"] + n["e2"]

\* The record of an API call that has returned or raised.
Completed(op, e, cb, pre, exc, value) ==
    [op |-> op, event |-> e, cb |-> cb, bundle |-> NoArgs, pre |-> pre,
     outcome |-> IF exc = NoException THEN "ok" ELSE "raise",
     value |-> IF exc = NoException THEN value ELSE exc]

\* Event.__init__ of every event.
Init ==
    /\ callbacks = [e \in Events |-> <<>>]
    /\ call = Completed("__init__", "e1", None, <<>>, NoException, None)
    /\ idx = 0
    /\ calls = <<>>
    /\ nSub = [e \in Events |-> 0]
    /\ nUnsub = [e \in Events |-> 0]

\* Variant of subscribe for a list that is shared by all instances (a class
\* attribute instead of one set in __init__).
subscribe_shared(e, cb) ==
    /\ Idle
    /\ Total(nSub) < MaxSubs
    /\ callbacks' = [x \in Events |-> list_append(callbacks[x], cb)]
    /\ call' = Completed("subscribe", e, cb, callbacks[e], NoException, None)
    /\ nSub' = [nSub EXCEPT ![e] = @ + 1]
    /\ idx' = 0
    /\ calls' = <<>>
    /\ UNCHANGED nUnsub

\* Variant of subscribe that refuses a callback that is already subscribed.
subscribe_reject_duplicate(e, cb) ==
    /\ Idle
    /\ Total(nSub) < MaxSubs
    /\ LET dup == \E i \in 1..Len(callbacks[e]) : callbacks[e][i] = cb IN
        /\ callbacks' = IF dup THEN callbacks
                        ELSE [callbacks EXCEPT ![e] = list_append(@, cb)]
        /\ call' = Completed("subscribe", e, cb, callbacks[e],
                             IF dup THEN "ValueError: already subscribed"
                             ELSE NoException, None)
        /\ nSub' = [nSub EXCEPT ![e] = IF dup THEN @ ELSE @ + 1]
    /\ idx' = 0
    /\ calls' = <<>>
    /\ UNCHANGED nUnsub

\* Event.subscribe(callback)
subscribe(e, cb) ==
    /\ Idle
    /\ Total(nSub) < MaxSubs
    /\ callbacks' = [callbacks EXCEPT ![e] = list_append(@, cb)]
    /\ call' = Completed("subscribe", e, cb, callbacks[e], NoException, None)
    /\ nSub' = [nSub EXCEPT ![e] = @ + 1]
    /\ idx' = 0
    /\ calls' = <<>>
    /\ UNCHANGED nUnsub

\* Variant of unsubscribe that removes the callback from a copy of the list.
unsubscribe_on_copy(e, cb) ==
    /\ Idle
    /\ LET r == list_remove(callbacks[e], cb) IN
        /\ callbacks' = callbacks
        /\ call' = Completed("unsubscribe", e, cb, callbacks[e], r.exc, None)
        /\ nUnsub' = [nUnsub EXCEPT
                        ![e] = IF r.exc = NoException THEN @ + 1 ELSE @]
    /\ idx' = 0
    /\ calls' = <<>>
    /\ UNCHANGED nSub

\* Event.unsubscribe(callback)
unsubscribe(e, cb) ==
    /\ Idle
    /\ LET r == list_remove(callbacks[e], cb) IN
        /\ callbacks' = [callbacks EXCEPT ![e] = r.list]
        /\ call' = Completed("unsubscribe", e, cb, callbacks[e], r.exc, None)
        /\ nUnsub' = [nUnsub EXCEPT
                        ![e] = IF r.exc = NoException THEN @ + 1 ELSE @]
    /\ idx' = 0
    /\ calls' = <<>>
    /\ UNCHANGED nSub

\* Variant of event_listener without the return statement.
event_listener_no_return(e, cb) ==
    /\ Idle
    /\ Total(nSub) < MaxSubs
    /\ callbacks' = [callbacks EXCEPT ![e] = list_append(@, cb)]
    /\ call' = Completed("event_listener", e, cb, callbacks[e], NoException,
                         None)
    /\ nSub' = [nSub EXCEPT ![e] = @ + 1]
    /\ idx' = 0
    /\ calls' = <<>>
    /\ UNCHANGED nUnsub

\* Event.event_listener(callback): self.subscribe(callback); return callback
event_listener(e, cb) ==
    /\ Idle
    /\ Total(nSub) < MaxSubs
    /\ callbacks' = [callbacks EXCEPT ![e] = list_append(@, cb)]
    /\ call' = Completed("event_listener", e, cb, callbacks[e], NoException, cb)
    /\ nSub' = [nSub EXCEPT ![e] = @ + 1]
    /\ idx' = 0
    /\ calls' = <<>>
    /\ UNCHANGED nUnsub

(* ----------------------------- dispatch -------------------------------- *)

\* Number of entries of l whose body calls subscribe.
Subscribing(l) ==
    Cardinality({i \in 1..Len(l) : CallbackBody(l[i]).kind = "sub"})

\* Calling callback cb of an event whose list is l: the exception that
\* leaves the callback (if any), the value it returns, and the list after
\* the call.
CallCallback(cb, l) ==
    LET body == CallbackBody(cb) IN
    CASE body.kind = "plain" ->
            [exc |-> NoException, ret |-> CallbackResult, list |-> l,
             subs |-> 0, unsubs |-> 0]
      [] body.kind = "raise" ->
            [exc |-> TestException, ret |-> None, list |-> l,
             subs |-> 0, unsubs |-> 0]
      [] body.kind = "sub" ->
            [exc |-> NoException, ret |-> None,
             list |-> list_append(l, body.target),
             subs |-> 1, unsubs |-> 0]
      [] body.kind = "unsub" ->
            LET r == list_remove(l, body.target) IN
            [exc |-> r.exc, ret |-> None, list |-> r.list,
             subs |-> 0, unsubs |-> IF r.exc = NoException THEN 1 ELSE 0]

\* Variant of dispatch that goes on with the iterator of the previous call
\* instead of creating one.
dispatch_resume(e, bundle) ==
    /\ Idle
    /\ Total(nSub) + Subscribing(callbacks[e]) <= MaxSubs
    /\ call' = [op |-> "dispatch", event |-> e, cb |-> None, bundle |-> bundle,
                pre |-> callbacks[e], outcome |-> "running", value |-> None]
    /\ idx' = idx
    /\ calls' = <<>>
    /\ UNCHANGED <<callbacks, nSub, nUnsub>>

\* Event.dispatch(*args, **kwargs), entry: the for statement creates the
\* iterator over self._callbacks.
dispatch(e, bundle) ==
    /\ Idle
    /\ Total(nSub) + Subscribing(callbacks[e]) <= MaxSubs
    /\ call' = [op |-> "dispatch", event |-> e, cb |-> None, bundle |-> bundle,
                pre |-> callbacks[e], outcome |-> "running", value |-> None]
    /\ idx' = 0
    /\ calls' = <<>>
    /\ UNCHANGED <<callbacks, nSub, nUnsub>>

\* Variant of dispatch_next that catches the exception of a callback and
\* goes on with the loop.
dispatch_next_catch ==
    /\ call.outcome = "running"
    /\ LET e == call.event
           n == listiter_next(callbacks[e], idx) IN
        /\ ~n.done
        /\ LET r == CallCallback(n.item, callbacks[e]) IN
            /\ idx' = n.index
            /\ calls' = Append(calls, [cb |-> n.item,
                                       bundle |-> PassArgs(call.bundle),
                                       exc |-> r.exc, ret |-> r.ret,
                                       mutated |-> r.list # callbacks[e],
                                       before |-> callbacks[e],
                                       pos |-> n.index])
            /\ callbacks' = [callbacks EXCEPT ![e] = r.list]
            /\ nSub' = [nSub EXCEPT ![e] = @ + r.subs]
            /\ nUnsub' = [nUnsub EXCEPT ![e] = @ + r.unsubs]
            /\ call' = call

\* One iteration of the loop: take the next callback of the live list and
\* call it; an exception leaving the callback leaves dispatch.
dispatch_next ==
    /\ call.outcome = "running"
    /\ LET e == call.event
           n == listiter_next(callbacks[e], idx) IN
        /\ ~n.done
        /\ LET r == CallCallback(n.item, callbacks[e]) IN
            /\ idx' = n.index
            /\ calls' = Append(calls, [cb |-> n.item,
                                       bundle |-> PassArgs(call.bundle),
                                       exc |-> r.exc, ret |-> r.ret,
                                       mutated |-> r.list # callbacks[e],
                                       before |-> callbacks[e],
                                       pos |-> n.index])
            /\ callbacks' = [callbacks EXCEPT ![e] = r.list]
            /\ nSub' = [nSub EXCEPT ![e] = @ + r.subs]
            /\ nUnsub' = [nUnsub EXCEPT ![e] = @ + r.unsubs]
            /\ call' = IF r.exc = NoException
                       THEN call
                       ELSE [call EXCEPT !.outcome = "raise", !.value = r.exc]

\* Variant of dispatch_return that lets the iterator's StopIteration out.
dispatch_return_stop_iteration ==
    /\ call.outcome = "running"
    /\ listiter_next(callbacks[call.event], idx).done
    /\ call' = [call EXCEPT !.outcome = "raise", !.value = "StopIteration"]
    /\ UNCHANGED <<callbacks, idx, calls, nSub, nUnsub>>

\* Variant of dispatch_return that drops the subscribers it has called.
dispatch_return_clear ==
    /\ call.outcome = "running"
    /\ listiter_next(callbacks[call.event], idx).done
    /\ call' = [call EXCEPT !.outcome = "ok", !.value = None]
    /\ callbacks' = [callbacks EXCEPT ![call.event] = <<>>]
    /\ UNCHANGED <<idx, calls, nSub, nUnsub>>

\* The iterator is exhausted: the loop ends and dispatch returns None.
dispatch_return ==
    /\ call.outcome = "running"
    /\ listiter_next(callbacks[call.event], idx).done
    /\ call' = [call EXCEPT !.outcome = "ok", !.value = None]
    /\ UNCHANGED <<callbacks, idx, calls, nSub, nUnsub>>

Next ==
    \/ \E e \in Events, cb \in Callbacks : subscribe(e, cb)
    \/ \E e \in Events, cb \in Callbacks : unsubscribe(e, cb)
    \/ \E e \in Events, cb \in Callbacks : event_listener(e, cb)
    \/ \E e \in Events, bundle \in ArgBundles : dispatch(e, bundle)
    \/ dispatch_next
    \/ dispatch_return

Spec == Init /\ [][Next]_vars

(* ------------------- dispatch on longer lists -------------------------- *)

\* Length of the lists a dispatch is started on in SpecDispatch.
MaxList == 4

\* Length of the lists a dispatch is started on in FairSpecDispatch.
MaxFairList == 3

\* All lists of at most n callbacks.
ListsUpTo(n) == UNION {[1..k -> Callbacks] : k \in 0..n}

\* The states after Event.__init__ of both events followed by
\* subscribe(l[1]), ..., subscribe(l[Len(l)]) on e1, for the lists l of at
\* most n callbacks.
InitLists(n) ==
    \E l \in ListsUpTo(n) :
        /\ callbacks = [e \in Events |-> IF e = "e1" THEN l ELSE <<>>]
        /\ call = IF l = <<>>
                  THEN Completed("__init__", "e1", None, <<>>, NoException,
                                 None)
                  ELSE Completed("subscribe", "e1", l[Len(l)],
                                 SubSeq(l, 1, Len(l) - 1), NoException, None)
        /\ idx = 0
        /\ calls = <<>>
        /\ nSub = [e \in Events |-> IF e = "e1" THEN Len(l) ELSE 0]
        /\ nUnsub = [e \in Events |-> 0]

InitList == InitLists(MaxList)

\* Event.dispatch(*args, **kwargs), entry, for the first dispatch after the
\* subscribes.
dispatch_once(e, bundle) ==
    /\ Idle
    /\ call.op # "dispatch"
    /\ call' = [op |-> "dispatch", event |-> e, cb |-> None, bundle |-> bundle,
                pre |-> callbacks[e], outcome |-> "running", value |-> None]
    /\ idx' = 0
    /\ calls' = <<>>
    /\ UNCHANGED <<callbacks, nSub, nUnsub>>

NextDispatch ==
    \/ \E e \in Events, bundle \in ArgBundles : dispatch_once(e, bundle)
    \/ dispatch_next
    \/ dispatch_return

SpecDispatch == InitList /\ [][NextDispatch]_vars

\* A running dispatch goes on: every call of a subscriber returns or raises,
\* and nothing else runs on the caller's thread.
FairSpecDispatch ==
    /\ InitLists(MaxFairList)
    /\ [][NextDispatch]_vars
    /\ WF_vars(dispatch_next) /\ WF_vars(dispatch_return)

TypeOK ==
    /\ \A e \in Events : callbacks[e] \in Seq(Callbacks)
    /\ idx \in Nat
    /\ call.outcome \in {"ok", "raise", "running"}

(* --------------------------- properties -------------------------------- *)

\* The callbacks invoked by the call in `call`, in the order of invocation.
Invoked == [i \in 1..Len(calls) |-> calls[i].cb]

\* Number of entries of l equal to x.
Count(l, x) == Cardinality({i \in 1..Len(l) : l[i] = x})

\* No callback invoked so far by the running/last call changed the list.
NoMutation == \A i \in 1..Len(calls) : ~calls[i].mutated

\* No callback invoked so far by the running/last call raised.
NoRaise == \A i \in 1..Len(calls) : calls[i].exc = NoException

\* l without its i-th entry.
Without(l, i) == [j \in 1..(Len(l) - 1) |-> IF j < i THEN l[j] ELSE l[j + 1]]

\* C1: when no subscriber mutates the list during a dispatch and none
\* raises, the dispatch invokes the entries of the list as it was at the
\* start of the call one by one in list order (a prefix of it while it
\* runs), does not raise, and has invoked every entry exactly once when it
\* returns.
C1_DispatchEachOnceInOrder ==
    (call.op = "dispatch" /\ NoMutation /\ NoRaise) =>
        /\ Len(calls) <= Len(call.pre)
        /\ Invoked = SubSeq(call.pre, 1, Len(calls))
        /\ call.outcome # "raise"
        /\ (call.outcome = "ok" => Invoked = call.pre)
        /\ (call.outcome = "running" /\ Len(calls) = Len(call.pre)
                => ENABLED dispatch_return)

C1_Witness ==
    /\ call.op = "dispatch" /\ call.outcome = "ok" /\ NoMutation
    /\ Len(call.pre) = 3 /\ Len(calls) = 3
    /\ call.pre[1] # call.pre[2] /\ call.pre[1] = call.pre[3]

C3_UnsubscribeAbsentRaises ==
    (call.op = "unsubscribe"
        /\ \A i \in 1..Len(call.pre) : call.pre[i] # call.cb) =>
        /\ call.outcome = "raise"
        /\ call.value = NotInList
        /\ callbacks[call.event] = call.pre

C3_Witness ==
    /\ call.op = "unsubscribe" /\ call.outcome = "raise"
    /\ Len(call.pre) = 2
    /\ \A i \in 1..Len(call.pre) : call.pre[i] # call.cb
    /\ callbacks[call.event] = call.pre

\* C4: unsubscribe of a callback that occurs in the list succeeds and
\* removes its first occurrence only: one entry less, the others kept in
\* their order.
C4_UnsubscribeRemovesFirst ==
    (call.op = "unsubscribe"
        /\ \E i \in 1..Len(call.pre) : call.pre[i] = call.cb) =>
        /\ call.outcome = "ok"
        /\ Len(callbacks[call.event]) = Len(call.pre) - 1
        /\ \E i \in 1..Len(call.pre) :
              /\ call.pre[i] = call.cb
              /\ \A j \in 1..(i - 1) : call.pre[j] # call.cb
              /\ callbacks[call.event] = Without(call.pre, i)

C4_Witness ==
    /\ call.op = "unsubscribe" /\ call.outcome = "ok"
    /\ Len(call.pre) = 3
    /\ call.pre[1] = call.cb /\ call.pre[2] # call.cb /\ call.pre[3] = call.cb
    /\ callbacks[call.event] = <<call.pre[2], call.cb>>

\* C5: subscribe appends the callback as the new last entry and keeps every
\* existing entry at its position, also when the callback is already in
\* the list.
C5_SubscribeAppends ==
    (call.op = "subscribe") =>
        /\ call.outcome = "ok"
        /\ Len(callbacks[call.event]) = Len(call.pre) + 1
        /\ callbacks[call.event][Len(call.pre) + 1] = call.cb
        /\ \A i \in 1..Len(call.pre) : callbacks[call.event][i] = call.pre[i]

C5_Witness ==
    /\ call.op = "subscribe"
    /\ Len(call.pre) = 2
    /\ call.pre[1] = call.cb /\ call.pre[2] # call.cb
    /\ Count(callbacks[call.event], call.cb) = 2

\* C6: a dispatch without mutation and failure invokes every callback as
\* many times as it occurs in the list, and a successful unsubscribe lowers
\* the number of occurrences of its callback by exactly one (and of no
\* other callback).
C6_InvokedPerOccurrence ==
    /\ (call.op = "dispatch" /\ call.outcome = "ok" /\ NoMutation) =>
          \A cb \in Callbacks : Count(Invoked, cb) = Count(call.pre, cb)
    /\ (call.op = "unsubscribe" /\ call.outcome = "ok") =>
          \A cb \in Callbacks :
              Count(callbacks[call.event], cb) =
                  Count(call.pre, cb) - (IF cb = call.cb THEN 1 ELSE 0)

\* f subscribed twice and unsubscribed once, then dispatched: one call.
C6_Witness ==
    /\ call.op = "dispatch" /\ call.outcome = "ok" /\ NoMutation
    /\ nSub[call.event] = 2 /\ nUnsub[call.event] = 1
    /\ Len(calls) = 1
    /\ call.pre = <<calls[1].cb>>

\* C7: event_listener(f) returns f and changes the list as subscribe(f)
\* does: f appended once at the end, nothing else changed, no callback
\* invoked.
C7_EventListenerIsSubscribe ==
    (call.op = "event_listener") =>
        /\ call.outcome = "ok"
        /\ call.value = call.cb
        /\ callbacks[call.event] = Append(call.pre, call.cb)
        /\ calls = <<>>

C7_Witness ==
    /\ call.op = "event_listener"
    /\ Len(call.pre) = 2
    /\ callbacks[call.event] = <<call.pre[1], call.pre[2], call.cb>>
    /\ call.value = call.cb

\* C8: every event starts with an empty list; every step leaves each list
\* unchanged, appends one entry to it (a successful subscribe or
\* event_listener) or removes one entry from it keeping the order of the
\* others (a successful unsubscribe); and the length of the list is always
\* the number of successful subscribes minus that of successful
\* unsubscribes.
C8_OnlyAppendsAndRemovals ==
    /\ \A e \in Events : callbacks[e] = <<>>
    /\ [](\A e \in Events : Len(callbacks[e]) = nSub[e] - nUnsub[e])
    /\ [][\A e \in Events :
            \/ /\ callbacks'[e] = callbacks[e]
               /\ nSub'[e] = nSub[e] /\ nUnsub'[e] = nUnsub[e]
            \/ /\ \E cb \in Callbacks : callbacks'[e] = Append(callbacks[e], cb)
               /\ nSub'[e] = nSub[e] + 1 /\ nUnsub'[e] = nUnsub[e]
            \/ /\ \E i \in 1..Len(callbacks[e]) :
                      callbacks'[e] = Without(callbacks[e], i)
               /\ nSub'[e] = nSub[e] /\ nUnsub'[e] = nUnsub[e] + 1]_vars

C8_Witness ==
    /\ call.op = "dispatch" /\ call.outcome = "ok"
    /\ nSub[call.event] = 3 /\ nUnsub[call.event] = 1
    /\ Len(callbacks[call.event]) = 2
    /\ Len(calls) >= 2

\* C9: a dispatch on an event without subscribers invokes nothing, raises
\* nothing, leaves the list empty and returns None.
C9_DispatchNoSubscribers ==
    (call.op = "dispatch" /\ call.pre = <<>>) =>
        /\ calls = <<>>
        /\ callbacks[call.event] = <<>>
        /\ call.outcome # "raise"
        /\ call.value = None
        /\ (call.outcome = "running" => ENABLED dispatch_return)

C9_Witness ==
    /\ call.op = "dispatch" /\ call.pre = <<>> /\ call.outcome = "ok"
    /\ calls = <<>>
    /\ \E e \in Events : callbacks[e] # <<>>

\* C10: every callback invoked by a dispatch receives the argument bundle
\* given to that dispatch, and a dispatch that returns returns None whatever
\* its callbacks returned.
C10_SameArgumentsNoResult ==
    (call.op = "dispatch") =>
        /\ \A i \in 1..Len(calls) : calls[i].bundle = call.bundle
        /\ (call.outcome = "ok" => call.value = None)

C10_Witness ==
    /\ call.op = "dispatch" /\ call.outcome = "ok"
    /\ call.bundle.args = <<"Alice", 30>>
    /\ call.bundle.kwargs = {<<"active", TRUE>>}
    /\ Len(calls) = 3
    /\ \A i \in 1..3 : calls[i].bundle = call.bundle
    /\ calls[3].ret # None

\* x occurs in l.
InList(l, x) == \E i \in 1..Len(l) : l[i] = x

\* A step of a dispatch on e that invokes f.
Invokes(e, f) ==
    /\ call.op = "dispatch" /\ call.event = e
    /\ Len(calls') = Len(calls) + 1
    /\ calls'[Len(calls')].cb = f

C12_EventsIndependent ==
    [][\A e \in Events :
          /\ (e # call'.event) =>
                /\ callbacks'[e] = callbacks[e]
                /\ nSub'[e] = nSub[e]
                /\ nUnsub'[e] = nUnsub[e]
          /\ \A f \in Callbacks :
                Invokes(e, f) =>
                    /\ call'.event = e
                    /\ idx < Len(callbacks[e])
                    /\ callbacks[e][idx + 1] = f]_vars

C12_Witness ==
    /\ call.op = "dispatch" /\ call.outcome = "ok"
    /\ \A e \in Events : callbacks[e] # <<>>
    /\ Invoked = callbacks[call.event]
    /\ \A e \in Events \ {call.event} :
          \A f \in Callbacks : InList(callbacks[e], f) => ~InList(Invoked, f)

\* The invocations so far whose callback called subscribe / whose callback
\* removed an entry with unsubscribe.
SubscribeCalls ==
    {i \in 1..Len(calls) : CallbackBody(calls[i].cb).kind = "sub"}
Removals ==
    {i \in 1..Len(calls) :
        CallbackBody(calls[i].cb).kind = "unsub" /\ calls[i].mutated}

\* C13: subscribe never raises and adds exactly one entry: a subscribe call
\* made by the caller returns None with the list one longer, it can be made
\* in every state between calls for every event and callback (as long as
\* the number of subscribes explored allows one more), and a subscribe made
\* by a subscriber during a dispatch raises nothing and adds one entry too.
C13_SubscribeAlwaysSucceeds ==
    /\ (call.op = "subscribe") =>
          /\ call.outcome = "ok" /\ call.value = None
          /\ Len(callbacks[call.event]) = Len(call.pre) + 1
    /\ (Idle /\ Total(nSub) < MaxSubs) =>
          \A e \in Events, cb \in Callbacks : ENABLED subscribe(e, cb)
    /\ (call.op = "dispatch") =>
          /\ \A i \in SubscribeCalls :
                calls[i].exc = NoException /\ calls[i].mutated
          /\ Len(callbacks[call.event]) =
                Len(call.pre) + Cardinality(SubscribeCalls)
                    - Cardinality(Removals)

C13_Witness ==
    /\ call.op = "dispatch" /\ call.outcome = "running"
    /\ InList(call.pre, "cb1")
    /\ Len(calls) = 1 /\ calls[1].cb = "sub1" /\ calls[1].mutated
    /\ callbacks[call.event] = Append(call.pre, "cb1")

Target(i) == CallbackBody(calls[i].cb).target

\* Invocation i unsubscribed a callback whose only occurrence lay after the
\* iterator's position.
UnsubscribedLater(i) ==
    /\ i \in Removals
    /\ Count(calls[i].before, Target(i)) = 1
    /\ \E r \in (calls[i].pos + 1)..Len(calls[i].before) :
          calls[i].before[r] = Target(i)

\* C16 as stated: whenever a subscriber unsubscribes a callback whose only
\* occurrence lies after the current position, that callback is not invoked
\* in this dispatch and every entry up to and including the subscriber's
\* own has been invoked exactly once.
C16_Original ==
    (call.op = "dispatch") =>
        \A i \in 1..Len(calls) :
            UnsubscribedLater(i) =>
                /\ ~InList(Invoked, Target(i))
                /\ SubSeq(Invoked, 1, i)
                      = SubSeq(calls[i].before, 1, calls[i].pos)

\* C16 (amended): when a subscriber unsubscribes a callback whose only
\* occurrence lies after the current position, no subscriber invoked
\* earlier in the dispatch has changed the list and none subscribes that
\* callback again, then that callback is not invoked in this dispatch and
\* every entry up to and including the subscriber's own has been invoked
\* exactly once.
C16_LiveListUnsubscribeLater ==
    (call.op = "dispatch") =>
        \A i \in 1..Len(calls) :
            (/\ UnsubscribedLater(i)
             /\ \A j \in 1..(i - 1) : ~calls[j].mutated
             /\ \A j \in SubscribeCalls : Target(j) # Target(i)) =>
                /\ ~InList(Invoked, Target(i))
                /\ ~InList(callbacks[call.event], Target(i))
                /\ calls[i].pos = i
                /\ SubSeq(Invoked, 1, i) = SubSeq(call.pre, 1, i)

C16_Witness ==
    /\ call.op = "dispatch" /\ call.outcome = "ok"
    /\ call.pre = <<"cb1", "unsub3", "cb3", "cb1">>
    /\ Invoked = <<"cb1", "unsub3", "cb1">>
    /\ UnsubscribedLater(2)

\* Number of entries that lay after the iterator's position at invocation i.
Remaining(i) == Len(calls[i].before) - calls[i].pos

After(i) ==
    IF i < Len(calls) THEN calls[i + 1].before ELSE callbacks[call.event]

\* Invocation i removed an entry at or before the iterator's position while
\* an entry followed that position.
RemovedAtOrBefore(i) ==
    /\ i \in Removals
    /\ \E r \in 1..calls[i].pos : calls[i].before[r] = Target(i)
    /\ calls[i].pos < Len(calls[i].before)

\* C18: when a subscriber removes an entry at or before the current
\* position, the entry that immediately followed that position is skipped:
\* it is still in the list (now at the current position, which the
\* iterator has passed), the next invocation, if there is an entry for it,
\* is of the entry after the skipped one, and every later invocation is at
\* a position beyond the skipped entry; when the skipped entry was the last
\* one the dispatch makes no further invocation.
C18_RemovalSkipsNextEntry ==
    (call.op = "dispatch") =>
        \A i \in 1..Len(calls) :
            RemovedAtOrBefore(i) =>
                LET l == calls[i].before
                    p == calls[i].pos IN
                /\ Len(After(i)) = Len(l) - 1
                /\ After(i)[p] = l[p + 1]
                /\ \A j \in (i + 1)..Len(calls) : calls[j].pos > p
                /\ (i < Len(calls)) =>
                      /\ p + 2 <= Len(l)
                      /\ calls[i + 1].cb = l[p + 2]
                      /\ calls[i + 1].pos = p + 1
                /\ (p + 2 <= Len(l) /\ call.outcome = "ok") => i < Len(calls)
                /\ (p + 1 = Len(l)) => i = Len(calls)

C18_Witness ==
    /\ call.op = "dispatch" /\ call.outcome = "ok"
    /\ call.pre = <<"cb1", "unsubself", "cb3", "cb1">>
    /\ Invoked = <<"cb1", "unsubself", "cb1">>
    /\ callbacks[call.event] = <<"cb1", "cb3", "cb1">>
    /\ RemovedAtOrBefore(2)

\* C19: as long as no subscriber has called subscribe during a dispatch,
\* the dispatch has made at most as many invocations as the list had
\* entries when it started, never more than one per position, with no more
\* entries left to visit than were left at the start; and such a running
\* dispatch ends (returns or raises) unless a subscriber calls subscribe.
C19_DispatchTerminates ==
    /\ []((call.op = "dispatch" /\ SubscribeCalls = {}) =>
            /\ Len(calls) <= Len(call.pre)
            /\ idx = Len(calls)
            /\ Len(callbacks[call.event]) - idx <= Len(call.pre) - Len(calls))
    /\ (call.outcome = "running" /\ SubscribeCalls = {})
          ~> (call.outcome # "running" \/ SubscribeCalls # {})

C19_Witness ==
    /\ call.op = "dispatch" /\ call.outcome = "ok"
    /\ Len(call.pre) = 3 /\ SubscribeCalls = {}
    /\ Len(calls) = 2 /\ Removals # {}

\* No callback invoked so far by the running/last call called subscribe or
\* unsubscribe.
NoListCalls ==
    \A i \in 1..Len(calls) :
        CallbackBody(calls[i].cb).kind \in {"plain", "raise"}

\* C20: while and after a dispatch whose subscribers call neither subscribe
\* nor unsubscribe, the list is what it was before the dispatch, whether it
\* returned or raised; such a dispatch that returns has invoked every entry
\* once; a dispatch that follows it (also after a failure) is made on the
\* same list with a new iterator, so that its first invocation is of the
\* first entry.
C20_DispatchLeavesListUnchanged ==
    /\ []((call.op = "dispatch" /\ NoListCalls) =>
            /\ callbacks[call.event] = call.pre
            /\ (call.outcome = "ok" => Invoked = call.pre))
    /\ []((call.op = "dispatch" /\ Len(calls) >= 1) =>
            /\ calls[1].pos = 1
            /\ calls[1].cb = call.pre[1])
    /\ [][(call'.op = "dispatch" /\ call'.outcome = "running"
              /\ call.outcome # "running") =>
            /\ idx' = 0 /\ calls' = <<>>
            /\ callbacks' = callbacks
            /\ (call.op = "dispatch" /\ call.event = call'.event
                    /\ NoListCalls) => call'.pre = call.pre]_vars

C20_Witness ==
    /\ call.op = "dispatch" /\ call.outcome = "raise" /\ NoListCalls
    /\ Len(call.pre) = 3 /\ Len(calls) = 2
    /\ callbacks[call.event] = call.pre

\* Removing the first occurrence of f from l with f appended gives l back:
\* f does not occur in l, or every entry of l from the first f on is f.
Restorable(l, f) ==
    \A i \in 1..Len(l) : l[i] = f => \A j \in i..Len(l) : l[j] = f

\* The last call was subscribe(f) or event_listener(f), on list call.pre.
JustSubscribed ==
    call.op \in {"subscribe", "event_listener"} /\ call.outcome = "ok"

\* C21 as stated: right after subscribe(f) or event_listener(f), no
\* unsubscribe(f) on the same event raises or ends with a list other than
\* the one before the subscribe.
C21_Original ==
    JustSubscribed =>
        ~ENABLED (/\ unsubscribe(call.event, call.cb)
                  /\ \/ callbacks'[call.event] # call.pre
                     \/ call'.outcome # "ok")

\* C21 (amended): right after subscribe(f) or event_listener(f) an
\* unsubscribe(f) on the same event can be made and succeeds; it ends with
\* the list that preceded the subscribe when f did not occur in that list
\* or every entry from its first occurrence on was f, and with a different
\* list (the earlier occurrence removed, the new entry kept) otherwise.
C21_SubscribeUnsubscribeRoundTrip ==
    JustSubscribed =>
        /\ ENABLED unsubscribe(call.event, call.cb)
        /\ ~ENABLED (/\ unsubscribe(call.event, call.cb)
                     /\ call'.outcome # "ok")
        /\ Restorable(call.pre, call.cb) =>
              ~ENABLED (/\ unsubscribe(call.event, call.cb)
                        /\ callbacks'[call.event] # call.pre)
        /\ ~Restorable(call.pre, call.cb) =>
              ~ENABLED (/\ unsubscribe(call.event, call.cb)
                        /\ callbacks'[call.event] = call.pre)

C21_Witness ==
    /\ call.op = "event_listener" /\ call.outcome = "ok"
    /\ Len(call.pre) = 2
    /\ call.pre[1] # call.cb /\ call.pre[2] = call.cb
    /\ ENABLED (/\ unsubscribe(call.event, call.cb)
                /\ callbacks'[call.event] = call.pre)

====
